---- MODULE Spec2Model ----
(***************************************************************************)
(* Speaker-aligned transcript assembly of the meeting application          *)
(* (server/app/services/pyannote_diarization_service.py).                  *)
(*                                                                         *)
(* Time is counted in ticks of 0.1 s, so 1.0 s = 10 ticks and the          *)
(* arithmetic of the stages is exact.  A text is a sequence of tokens:     *)
(* a token is a word fragment, the blank " " or a marker "<|...|>".        *)
(***************************************************************************)
EXTENDS Integers, Sequences, FiniteSets, TLC

VARIABLES
    pc,          \* position of the run: "start", then the stage that has run
    block,       \* decoded Whisper text block given to _parse_whisper_output
    parsed,      \* its result: the list of timestamped sub-chunks
    chunks,      \* heap of ASR chunk objects (all_chunks / transcription['chunks'])
    merged,      \* result of _merge_overlapping_chunks: indices into chunks
    diar,        \* raw diarization tracks, in itertracks order
    smoothed,    \* tracks of _post_process_diarization(diar)
    resmoothed,  \* tracks of _post_process_diarization applied to smoothed
    windows,     \* decoded blocks of the windows of transcribe_audio_chunked
    aligned,     \* result of _align_whisper_with_diarization
    results,     \* heap of the aligned segment objects after sorted()
    cleaned,     \* result of _remove_redundant_segments: indices into results
    turns,       \* result of _merge_consecutive_speakers
    formatted,   \* formatted_results returned by process_with_speakers
    meetings,    \* rows of the meetings table, as committed (index = id)
    tasks,       \* background tasks process_meeting / process_file
    transcripts  \* rows of the transcripts table, as committed

\* the state of one run of the transcript assembly
pipeline == <<pc, block, windows, parsed, chunks, merged, diar, smoothed, resmoothed,
              aligned, results, cleaned, turns, formatted>>

\* the state of the meeting lifecycle (api/meetings.py, api/audio.py)
lifecycle == <<meetings, tasks, transcripts>>

vars == <<pipeline, lifecycle>>

----------------------------------------------------------------------------
(* Program constants, in ticks of 0.1 s or in words.                       *)

MergeGap == 10          \* gap < 1.0 in _post_process_diarization
DriftLimit == 10        \* overlap_duration < 1.0 in _remove_redundant_segments
MinDuration == 1        \* end - start > 0.1 in _remove_redundant_segments
TurnGap == 20           \* gap < 2.0 in _merge_consecutive_speakers
StitchWords == 5        \* min(5, len(prev_words)) in _merge_overlapping_chunks
LoopWords == 10         \* len(words) > 10 in _parse_whisper_output
SubLoopWords == 4       \* len(chunk_text.split()) > 4 in _parse_whisper_output
DefaultSpan == 20       \* start_time + 2.0 and the synthetic chunk (0.0, 2.0)
MaxCleanLen == 200      \* len(clean_text) < 200 in _parse_whisper_output

----------------------------------------------------------------------------
(* Python helpers.                                                         *)

Min(a, b) == IF a < b THEN a ELSE b
Max(a, b) == IF a > b THEN a ELSE b
Abs(a) == IF a < 0 THEN -a ELSE a

SP == " "

RECURSIVE SplitFrom(_, _, _)
SplitFrom(text, cur, acc) ==
    IF text = <<>>
    THEN IF cur = <<>> THEN acc ELSE Append(acc, cur)
    ELSE IF Head(text) = SP
         THEN SplitFrom(Tail(text), <<>>, IF cur = <<>> THEN acc ELSE Append(acc, cur))
         ELSE SplitFrom(Tail(text), Append(cur, Head(text)), acc)

\* str.split(): the maximal runs of non-blank tokens, in order
split(text) == SplitFrom(text, <<>>, <<>>)

RECURSIVE join(_)
\* ' '.join(words)
join(words) ==
    IF words = <<>> THEN <<>>
    ELSE IF Len(words) = 1 THEN words[1]
    ELSE words[1] \o <<SP>> \o join(Tail(words))

\* words[-k:]  (Python: words[-0:] is the whole list)
LastWords(words, k) ==
    IF k = 0 THEN words
    ELSE SubSeq(words, Max(1, Len(words) - k + 1), Len(words))

\* words[:k]
FirstWords(words, k) == SubSeq(words, 1, Min(k, Len(words)))

\* words[k:]
DropWords(words, k) == SubSeq(words, Min(k, Len(words)) + 1, Len(words))

RECURSIVE SeqSum(_)
SeqSum(s) == IF s = <<>> THEN 0 ELSE Head(s) + SeqSum(Tail(s))

Range(s) == {s[i] : i \in DOMAIN s}

\* all sequences over S of length at most n
SeqsUpTo(S, n) == UNION {[1..k -> S] : k \in 0..n}

----------------------------------------------------------------------------
(* 4.1 Chunk Merger: _merge_overlapping_chunks.  The chunk dicts are       *)
(* objects: merged holds references (indices) to them and a stitch writes  *)
(* into the object that merged[-1] refers to.                              *)

Chunk(s, e, t) == [timestamp |-> <<s, e>>, text |-> t]


\* mutant: the stitch appends every word of current, the matched ones included
StitchText_AllWords(prev, current, k) ==
    prev.text \o <<SP>> \o join(split(current.text))

\* the text written by a stitch: prev['text'] + ' ' + ' '.join(current_words[k:])
StitchText(prev, current, k) ==
    prev.text \o <<SP>> \o join(DropWords(split(current.text), k))

\* the boundary comparison prev_words[-k:] == current_words[:k]
BoundaryMatch(prev, current) ==
    LET prev_words == split(prev.text)
        current_words == split(current.text)
        overlap_words == Min(StitchWords, Len(prev_words))
    IN LastWords(prev_words, overlap_words) = FirstWords(current_words, overlap_words)

\* mutant: an overlap of exactly half of prev is enough
StitchWindow_HalfInclusive(prev, current) ==
    /\ current.timestamp[1] < prev.timestamp[2]
    /\ 2 * (prev.timestamp[2] - current.timestamp[1])
         >= prev.timestamp[2] - prev.timestamp[1]

\* the two timing conditions that lead to the boundary comparison
StitchWindow(prev, current) ==
    /\ current.timestamp[1] < prev.timestamp[2]
    /\ 2 * (prev.timestamp[2] - current.timestamp[1])
         > prev.timestamp[2] - prev.timestamp[1]

RECURSIVE MergeLoop(_, _, _)
MergeLoop(heap, acc, i) ==
    IF i > Len(heap) THEN [heap |-> heap, merged |-> acc]
    ELSE LET p == acc[Len(acc)]
             prev == heap[p]
             current == heap[i]
         IN IF StitchWindow(prev, current) /\ BoundaryMatch(prev, current)
            THEN LET k == Min(StitchWords, Len(split(prev.text)))
                     stitched == [timestamp |-> <<prev.timestamp[1], current.timestamp[2]>>,
                                  text |-> StitchText(prev, current, k)]
                 IN MergeLoop([heap EXCEPT ![p] = stitched], acc, i + 1)
            ELSE MergeLoop(heap, Append(acc, i), i + 1)

merge_overlapping_chunks(heap) ==
    IF heap = <<>> THEN [heap |-> heap, merged |-> <<>>]
    ELSE MergeLoop(heap, <<1>>, 2)

\* the list a caller sees through references refs into heap
Deref(heap, refs) == [i \in DOMAIN refs |-> heap[refs[i]]]

----------------------------------------------------------------------------
(* 4.3 Diarization Smoother: _post_process_diarization.  A track is a      *)
(* record (start, end, speaker).  The annotation is read with itertracks,  *)
(* which yields the tracks ordered by segment (start, then end), and is    *)
(* written with annotation[segment] = label, which keeps one label per     *)
(* segment (a later write to the same segment replaces the earlier one)    *)
(* and ignores an empty segment.                                           *)

Track(s, e, l) == [start |-> s, end |-> e, speaker |-> l]

SegLess(a, b) == a[1] < b[1] \/ (a[1] = b[1] /\ a[2] < b[2])

RECURSIVE SortSegs(_)
SortSegs(S) ==
    IF S = {} THEN <<>>
    ELSE LET m == CHOOSE x \in S : \A y \in S : x = y \/ SegLess(x, y)
         IN <<m>> \o SortSegs(S \ {m})

\* itertracks of the Annotation built by the writes in emitted, in order
AnnotationTracks(emitted) ==
    LET keys == {<<emitted[i].start, emitted[i].end>> :
                    i \in {j \in DOMAIN emitted : emitted[j].end > emitted[j].start}}
        last(k) == CHOOSE i \in DOMAIN emitted :
                      /\ <<emitted[i].start, emitted[i].end>> = k
                      /\ \A j \in DOMAIN emitted :
                            <<emitted[j].start, emitted[j].end>> = k => j <= i
        order == SortSegs(keys)
    IN [n \in DOMAIN order |->
            Track(order[n][1], order[n][2], emitted[last(order[n])].speaker)]


\* mutant: a gap of exactly 1.0 s is merged too
SameTurn_Inclusive(current, next) ==
    next.speaker = current.speaker /\ next.start - current.end <= MergeGap

\* the merge test of the loop
SameTurn(current, next) ==
    next.speaker = current.speaker /\ next.start - current.end < MergeGap

\* the segment a merge leaves: Segment(current_segment.start, next_segment.end)
Extend(current, next) == Track(current.start, next.end, current.speaker)

RECURSIVE SmoothLoop(_, _, _)
SmoothLoop(rest, current, emitted) ==
    IF rest = <<>> THEN Append(emitted, current)
    ELSE LET next == Head(rest)
         IN IF SameTurn(current, next)
            THEN SmoothLoop(Tail(rest), Extend(current, next), emitted)
            ELSE SmoothLoop(Tail(rest), next, Append(emitted, current))

RECURSIVE InsertByStart(_, _)
\* stable insertion behind the elements whose start is not greater
InsertByStart(s, x) ==
    IF s = <<>> THEN <<x>>
    ELSE IF s[Len(s)].start <= x.start THEN Append(s, x)
    ELSE Append(InsertByStart(SubSeq(s, 1, Len(s) - 1), x), s[Len(s)])

RECURSIVE sorted_by_start(_)
\* sorted(xs, key=lambda x: x.start), which is stable
sorted_by_start(xs) ==
    IF xs = <<>> THEN <<>>
    ELSE InsertByStart(sorted_by_start(SubSeq(xs, 1, Len(xs) - 1)), xs[Len(xs)])

\* the writes new_annotation[current_segment] = current_label, in order
SmoothWrites(tracks) ==
    LET sorted_segments == sorted_by_start(tracks)
    IN SmoothLoop(Tail(sorted_segments), Head(sorted_segments), <<>>)

post_process_diarization(tracks) ==
    IF tracks = <<>> THEN tracks
    ELSE AnnotationTracks(SmoothWrites(tracks))

----------------------------------------------------------------------------
(* 4.4 Alignment Engine: _align_whisper_with_diarization and               *)
(* _find_nearest_speaker.  overlap_stats is a dict: it keeps its keys in   *)
(* the order of their first insertion, and max(overlap_stats,              *)
(* key=overlap_stats.get) returns the first key that has the largest sum.  *)

Segment(s, e, spk, t) == [start |-> s, end |-> e, speaker |-> spk, text |-> t]

\* max(0, min(w_end, seg.end) - max(w_start, seg.start))
OverlapDur(w_start, w_end, seg) ==
    Max(0, Min(w_end, seg.end) - Max(w_start, seg.start))

\* index of key in the dict, 0 when it is absent
KeyIndex(stats, key) ==
    IF \E i \in DOMAIN stats : stats[i].speaker = key
    THEN CHOOSE i \in DOMAIN stats : stats[i].speaker = key
    ELSE 0

RECURSIVE OverlapStats(_, _, _, _)
OverlapStats(w_start, w_end, segs, stats) ==
    IF segs = <<>> THEN stats
    ELSE LET spk_seg == Head(segs)
             overlap_dur == OverlapDur(w_start, w_end, spk_seg)
             at == KeyIndex(stats, spk_seg.speaker)
         IN IF overlap_dur > 0
            THEN OverlapStats(w_start, w_end, Tail(segs),
                     IF at = 0
                     THEN Append(stats, [speaker |-> spk_seg.speaker, total |-> overlap_dur])
                     ELSE [stats EXCEPT ![at].total = @ + overlap_dur])
            ELSE OverlapStats(w_start, w_end, Tail(segs), stats)


\* mutant: on equal sums the key inserted last wins
DominantSpeaker_LastOnTie(stats) ==
    LET last == CHOOSE i \in DOMAIN stats :
                    /\ \A j \in DOMAIN stats : stats[j].total <= stats[i].total
                    /\ \A j \in (i + 1)..Len(stats) : stats[j].total < stats[i].total
    IN stats[last].speaker

\* max(overlap_stats, key=overlap_stats.get)
DominantSpeaker(stats) ==
    LET first == CHOOSE i \in DOMAIN stats :
                    /\ \A j \in DOMAIN stats : stats[j].total <= stats[i].total
                    /\ \A j \in 1..(i - 1) : stats[j].total < stats[i].total
    IN stats[first].speaker

RECURSIVE NearestLoop(_, _, _, _)
\* distances are compared doubled: |2*mid_point - 2*segment_mid|; best = -1 is inf
NearestLoop(mid2, segs, best, best_speaker) ==
    IF segs = <<>> THEN best_speaker
    ELSE LET segment == Head(segs)
             distance == Abs(mid2 - (segment.start + segment.end))
         IN IF best = -1 \/ distance < best
            THEN NearestLoop(mid2, Tail(segs), distance, segment.speaker)
            ELSE NearestLoop(mid2, Tail(segs), best, best_speaker)


RECURSIVE NearestLoop_LastOnTie(_, _, _, _)
NearestLoop_LastOnTie(mid2, segs, best, best_speaker) ==
    IF segs = <<>> THEN best_speaker
    ELSE LET segment == Head(segs)
             distance == Abs(mid2 - (segment.start + segment.end))
         IN IF best = -1 \/ distance <= best
            THEN NearestLoop_LastOnTie(mid2, Tail(segs), distance, segment.speaker)
            ELSE NearestLoop_LastOnTie(mid2, Tail(segs), best, best_speaker)

\* mutant: distance <= min_distance, so the last of the nearest segments wins
find_nearest_speaker_LastOnTie(start, end, speaker_segments) ==
    NearestLoop_LastOnTie(start + end, speaker_segments, -1, "SPEAKER_00")

\* mutant: no default label, a chunk without any interval stays unlabelled
find_nearest_speaker_NoSentinel(start, end, speaker_segments) ==
    NearestLoop(start + end, speaker_segments, -1, "")

find_nearest_speaker(start, end, speaker_segments) ==
    NearestLoop(start + end, speaker_segments, -1, "SPEAKER_00")

\* the speaker given to one chunk with w_end > w_start
AlignSpeaker(w_start, w_end, speaker_segments) ==
    LET overlap_stats == OverlapStats(w_start, w_end, speaker_segments, <<>>)
    IN IF overlap_stats = <<>>
       THEN find_nearest_speaker(w_start, w_end, speaker_segments)
       ELSE DominantSpeaker(overlap_stats)

RECURSIVE align_whisper_with_diarization_KeepEmpty(_, _)
\* mutant: w_duration < 0 instead of <= 0, a chunk with end = start is kept
align_whisper_with_diarization_KeepEmpty(whisper_chunks, speaker_segments) ==
    IF whisper_chunks = <<>> THEN <<>>
    ELSE LET chunk == Head(whisper_chunks)
             w_start == chunk.timestamp[1]
             w_end == chunk.timestamp[2]
             rest == align_whisper_with_diarization_KeepEmpty(Tail(whisper_chunks),
                                                              speaker_segments)
         IN IF w_end - w_start < 0 THEN rest
            ELSE <<Segment(w_start, w_end,
                           AlignSpeaker(w_start, w_end, speaker_segments),
                           chunk.text)>> \o rest

RECURSIVE align_whisper_with_diarization(_, _)
align_whisper_with_diarization(whisper_chunks, speaker_segments) ==
    IF whisper_chunks = <<>> THEN <<>>
    ELSE LET chunk == Head(whisper_chunks)
             w_start == chunk.timestamp[1]
             w_end == chunk.timestamp[2]
             rest == align_whisper_with_diarization(Tail(whisper_chunks), speaker_segments)
         IN IF w_end - w_start <= 0 THEN rest
            ELSE <<Segment(w_start, w_end,
                           AlignSpeaker(w_start, w_end, speaker_segments),
                           chunk.text)>> \o rest

----------------------------------------------------------------------------
(* 4.5 Redundancy Remover: _remove_redundant_segments.  The segments are   *)
(* objects: cleaned holds references to them and rule 2 writes the start   *)
(* of the object it keeps.                                                 *)

\* str.lower() on the tokens of the model's alphabet
LowerToken(tok) ==
    CASE tok = "A" -> "a"
      [] tok = "B" -> "b"
      [] OTHER -> tok

\* set(text.lower().split())
WordSet(text) ==
    LET words == split(text)
    IN {[i \in DOMAIN words[n] |-> LowerToken(words[n][i])] : n \in DOMAIN words}

\* overlap_duration of the loop body
SegOverlap(prev, current) ==
    Max(0, Min(prev.end, current.end) - Max(prev.start, current.start))


\* mutant: a duplicate must repeat the text of prev, not only its words
IsDuplicate_SameText(prev, current) ==
    LET current_duration == current.end - current.start
    IN /\ current_duration > 0
       /\ 10 * SegOverlap(prev, current) > 8 * current_duration
       /\ current.text = prev.text

\* rule 1: more than 80% of current lies in prev and its words are all in prev
IsDuplicate(prev, current) ==
    LET current_duration == current.end - current.start
    IN /\ current_duration > 0
       /\ 10 * SegOverlap(prev, current) > 8 * current_duration
       /\ WordSet(current.text) \subseteq WordSet(prev.text)


\* mutant: rule 2 never moves the start
DriftStart_NoClamp(prev, current) == current.start

\* mutant: rule 2 moves the start whatever the length of the overlap
DriftStart_AnyOverlap(prev, current) ==
    IF current.start < prev.end THEN prev.end ELSE current.start

\* rule 2: the start written into current, or its own start when none is written
DriftStart(prev, current) ==
    IF current.start < prev.end /\ SegOverlap(prev, current) < DriftLimit
    THEN prev.end
    ELSE current.start

RECURSIVE RemoveLoop_PrevIsPrevious(_, _, _)
\* mutant: prev is the segment before current in the input, accepted or not
RemoveLoop_PrevIsPrevious(heap, acc, i) ==
    IF i > Len(heap) THEN [heap |-> heap, cleaned |-> acc]
    ELSE LET current == heap[i]
             prev == heap[i - 1]
         IN IF IsDuplicate(prev, current)
            THEN RemoveLoop_PrevIsPrevious(heap, acc, i + 1)
            ELSE LET start == DriftStart(prev, current)
                     written == [heap EXCEPT ![i].start = start]
                 IN IF current.end - start > MinDuration
                    THEN RemoveLoop_PrevIsPrevious(written, Append(acc, i), i + 1)
                    ELSE RemoveLoop_PrevIsPrevious(written, acc, i + 1)

RECURSIVE RemoveLoop(_, _, _)
RemoveLoop(heap, acc, i) ==
    IF i > Len(heap) THEN [heap |-> heap, cleaned |-> acc]
    ELSE LET current == heap[i]
             prev == heap[acc[Len(acc)]]
         IN IF IsDuplicate(prev, current)
            THEN RemoveLoop(heap, acc, i + 1)
            ELSE LET start == DriftStart(prev, current)
                     written == [heap EXCEPT ![i].start = start]
                 IN IF current.end - start > MinDuration
                    THEN RemoveLoop(written, Append(acc, i), i + 1)
                    ELSE RemoveLoop(written, acc, i + 1)

remove_redundant_segments(heap) ==
    IF heap = <<>> THEN [heap |-> heap, cleaned |-> <<>>]
    ELSE RemoveLoop(heap, <<1>>, 2)

----------------------------------------------------------------------------
(* 4.6 Turn Merger: _merge_consecutive_speakers (works on copies).         *)


\* mutant: the same speaker is folded whatever the gap
Folds_AnyGap(current, next_seg) == current.speaker = next_seg.speaker

\* the fold test: same speaker and gap below 2.0 s
Folds(current, next_seg) ==
    current.speaker = next_seg.speaker /\ next_seg.start - current.end < TurnGap

\* mutant: the text of the folded segment is appended without a space
Fold_NoSpace(current, next_seg) ==
    [current EXCEPT !.text = @ \o next_seg.text,
                    !.end = Max(@, next_seg.end)]

\* mutant: the turn ends where the folded segment ends
Fold_NextEnd(current, next_seg) ==
    [current EXCEPT !.text = @ \o <<SP>> \o next_seg.text,
                    !.end = next_seg.end]

\* the turn after folding next_seg into it
Fold(current, next_seg) ==
    [current EXCEPT !.text = @ \o <<SP>> \o next_seg.text,
                    !.end = Max(@, next_seg.end)]

RECURSIVE TurnLoop(_, _, _)
TurnLoop(rest, current, acc) ==
    IF rest = <<>> THEN Append(acc, current)
    ELSE LET next_seg == Head(rest)
         IN IF Folds(current, next_seg)
            THEN TurnLoop(Tail(rest), Fold(current, next_seg), acc)
            ELSE TurnLoop(Tail(rest), next_seg, Append(acc, current))

merge_consecutive_speakers(segs) ==
    IF segs = <<>> THEN segs
    ELSE TurnLoop(Tail(segs), Head(segs), <<>>)

----------------------------------------------------------------------------
(* 4.2 Hallucination Filter: _parse_whisper_output.  A marker token        *)
(* "<|...|>" is what re.sub(r'<\|.*?\|>') removes; a timestamp token is a  *)
(* marker that timestamp_pattern r'<\|(\d+\.\d+)\|>' matches.              *)

\* float(parts[i]) of the timestamp tokens, in ticks
TsTicks == ("<|0.00|>" :> 0) @@ ("<|1.00|>" :> 10) @@ ("<|2.00|>" :> 20)
           @@ ("<|18.00|>" :> 180)

IsTimestamp(tok) == tok \in DOMAIN TsTicks
IsMarker(tok) == IsTimestamp(tok) \/ tok = "<|endoftext|>"

\* a word of 99 characters
LongWord == "xxxxxxxxxxxxxxxxxxxxxxxxxxxxxxxxxxxxxxxxxxxxxxxxxxxxxxxxxxxxxxxxxxxxxxxxxxxxxxxxxxxxxxxxxxxxxxxxxxx"

\* len(text) in characters
TextLen(text) == SeqSum([i \in DOMAIN text |-> Len(text[i])])

RECURSIVE lstrip(_)
lstrip(text) == IF text # <<>> /\ Head(text) = SP THEN lstrip(Tail(text)) ELSE text

RECURSIVE rstrip(_)
rstrip(text) ==
    IF text # <<>> /\ text[Len(text)] = SP
    THEN rstrip(SubSeq(text, 1, Len(text) - 1))
    ELSE text

\* str.strip()
strip(text) == lstrip(rstrip(text))

RECURSIVE SplitParts(_, _, _)
\* re.split(timestamp_pattern, text): text, time, text, time, ..., text
SplitParts(text, cur, acc) ==
    IF text = <<>> THEN Append(acc, cur)
    ELSE IF IsTimestamp(Head(text))
         THEN SplitParts(Tail(text), <<>>, Append(Append(acc, cur), TsTicks[Head(text)]))
         ELSE SplitParts(Tail(text), Append(cur, Head(text)), acc)

\* re.sub(r'<\|.*?\|>', '', text)
RemoveMarkers(text) == SelectSeq(text, LAMBDA tok : ~IsMarker(tok))

Punctuation == <<".", ",", "?", "!", ":">>

\* chunk_text in ".,?!:" for a non-empty chunk_text: a substring test
InPunctuation(chunk_text) ==
    \E i, j \in DOMAIN Punctuation : SubSeq(Punctuation, i, j) = chunk_text


\* mutant: the diversity limit taken as 5% instead of 10%
IsRepetitionLoop_FivePercent(text) ==
    LET words == split(text)
    IN Len(words) > LoopWords /\ 20 * Cardinality(Range(words)) < Len(words)

\* the whole-block test: more than 10 words, fewer than 10% of them distinct
IsRepetitionLoop(text) ==
    LET words == split(text)
    IN Len(words) > LoopWords /\ 10 * Cardinality(Range(words)) < Len(words)

\* the per-sub-chunk filter
KeepSubChunk(start_time, end_time, chunk_text) ==
    /\ ~(end_time <= start_time)
    /\ ~(chunk_text = <<>> \/ InPunctuation(chunk_text))
    /\ ~(Len(split(chunk_text)) > SubLoopWords
         /\ Cardinality(Range(split(chunk_text))) = 1)

RECURSIVE TimedChunks(_, _)
\* the loop for i in range(1, len(parts), 2); n is i + 1
TimedChunks(parts, n) ==
    IF n + 1 > Len(parts) THEN <<>>
    ELSE LET start_time == parts[n]
             chunk_text == strip(parts[n + 1])
             end_time == IF n + 2 <= Len(parts) THEN parts[n + 2]
                         ELSE start_time + DefaultSpan
             rest == TimedChunks(parts, n + 2)
         IN IF KeepSubChunk(start_time, end_time, chunk_text)
            THEN <<Chunk(start_time, end_time, chunk_text)>> \o rest
            ELSE rest

\* the chunks appended when the loop left none
SyntheticChunks(text) ==
    LET clean_text == strip(RemoveMarkers(text))
    IN IF clean_text # <<>> /\ TextLen(clean_text) < MaxCleanLen
       THEN <<Chunk(0, DefaultSpan, clean_text)>>
       ELSE <<>>

parse_whisper_output(text) ==
    IF IsRepetitionLoop(text) THEN [chunks |-> <<>>, text |-> <<>>]
    ELSE LET timed == TimedChunks(SplitParts(text, <<>>, <<>>), 2)
         IN [chunks |-> IF timed = <<>> THEN SyntheticChunks(text) ELSE timed,
             text |-> text]

----------------------------------------------------------------------------
(* transcribe_audio_chunked: every window of 20 s is decoded on its own,   *)
(* the windows advance by 20 s - 4 s, the sub-chunks of a window are moved *)
(* by the start time of the window and the Chunk Merger runs on the whole. *)

ChunkLength == 200
StrideLength == 40

ShiftChunks(cs, chunk_start_time) ==
    [i \in DOMAIN cs |->
        Chunk(chunk_start_time + cs[i].timestamp[1],
              chunk_start_time + cs[i].timestamp[2], cs[i].text)]

RECURSIVE AllChunks(_, _)
\* all_chunks after the windows blocks[n..] have been decoded
AllChunks(blocks, n) ==
    IF n > Len(blocks) THEN <<>>
    ELSE ShiftChunks(parse_whisper_output(blocks[n]).chunks,
                     (n - 1) * (ChunkLength - StrideLength))
         \o AllChunks(blocks, n + 1)

----------------------------------------------------------------------------
(* process_with_speakers: overlap regions, speaker statistics and the      *)
(* formatting of the turns.                                                *)

\* get_speaker_overlap: the parts shared by two tracks of the annotation.
\* get_overlap returns their union as maximal regions; a turn with
\* end > start meets a maximal region exactly when it meets one of the parts.
get_speaker_overlap(tracks) ==
    {<<Max(tracks[i].start, tracks[j].start), Min(tracks[i].end, tracks[j].end)>> :
        <<i, j>> \in {ij \in (DOMAIN tracks) \X (DOMAIN tracks) :
                        /\ ij[1] < ij[2]
                        /\ Max(tracks[ij[1]].start, tracks[ij[2]].start)
                             < Min(tracks[ij[1]].end, tracks[ij[2]].end)}}

\* calculate_speaker_statistics: label_duration, the time covered by the
\* tracks of the speaker; -1 when the speaker has no track (no entry)
SpeakerTotalTime(tracks, speaker) ==
    LET own == {i \in DOMAIN tracks : tracks[i].speaker = speaker}
        points == {tracks[i].start : i \in own} \cup {tracks[i].end : i \in own}
        covered == {pq \in points \X points :
                      /\ pq[1] < pq[2]
                      /\ \A m \in points : ~(pq[1] < m /\ m < pq[2])
                      /\ \E i \in own : tracks[i].start <= pq[1] /\ pq[2] <= tracks[i].end}
        RECURSIVE Total(_)
        Total(S) == IF S = {} THEN 0
                    ELSE LET pq == CHOOSE x \in S : TRUE
                         IN (pq[2] - pq[1]) + Total(S \ {pq})
    IN IF own = {} THEN -1 ELSE Total(covered)

\* "SPEAKER_00" -> "Konusmaci 1": int(speaker_id.split("_")[-1]) + 1,
\* and the id itself when the last part is no number
SpeakerLabel(speaker_id) ==
    CASE speaker_id = "SPEAKER_00" -> "Konusmaci 1"
      [] speaker_id = "SPEAKER_01" -> "Konusmaci 2"
      [] OTHER -> speaker_id

FormatResult(result, overlap_segments, tracks) ==
    [text |-> result.text,
     start |-> result.start,
     end |-> result.end,
     speaker_id |-> result.speaker,
     speaker_label |-> SpeakerLabel(result.speaker),
     is_overlap |-> \E ov \in overlap_segments :
                        result.start < ov[2] /\ result.end > ov[1],
     speaker_total_time |-> SpeakerTotalTime(tracks, result.speaker)]

FormatResults(rs, tracks) ==
    [i \in DOMAIN rs |-> FormatResult(rs[i], get_speaker_overlap(tracks), tracks)]

----------------------------------------------------------------------------
(* Meeting lifecycle: api/meetings.py, api/audio.py and                    *)
(* services/audio_service.py.  meetings and transcripts are the tables as  *)
(* committed.  The handlers of api/meetings.py are async functions without *)
(* an await between their query and their commit, so each is one step;     *)
(* upload_audio_chunk awaits its file writes and is taken for the case     *)
(* that no other request is served before its commit.  A background task   *)
(* runs in steps: it starts, the engine returns or fails, rows are added   *)
(* to its session one by one, and one commit stores them.  pause_time is   *)
(* "none", "fresh" (set less than 15 minutes ago) or "old".  The field run *)
(* of a transcript row is not a column: it names the task that added it.   *)

SILENCE_DURATION_SECONDS == 900
SilenceStep == 20

Meeting(st, path) ==
    [status |-> st, audio_file_path |-> path, pause_time |-> "none",
     silence_duration |-> 0]

Task(kind, m, path) ==
    [kind |-> kind, meeting_id |-> m, audio_file_path |-> path, pc |-> "queued",
     segments |-> 0, added |-> 0]

Transcript(m, n, t) == [meeting_id |-> m, segment_number |-> n, run |-> t]

\* active_meeting of start_meeting: a meeting that is recording or paused
ActiveMeeting ==
    \E m \in DOMAIN meetings : meetings[m].status \in {"recording", "paused"}

\* AudioService.check_silence(chunk_path, meeting); small: file_size < 1000
check_silence(meeting, small) ==
    LET counted == [meeting EXCEPT !.silence_duration =
                        IF small THEN @ + SilenceStep ELSE 0]
        paused == IF /\ counted.silence_duration >= SILENCE_DURATION_SECONDS
                     /\ counted.status = "recording"
                  THEN [counted EXCEPT !.status = "paused", !.pause_time = "fresh"]
                  ELSE counted
    IN IF paused.status = "paused" /\ paused.pause_time = "old"
       THEN [paused EXCEPT !.status = "processing"]
       ELSE paused

----------------------------------------------------------------------------
(* Bounds and input sets.                                                  *)

MaxSegments == 3      \* chunks given to one run of the pipeline
MaxTracks == 4        \* tracks of a raw annotation given to the smoother
MaxAlignTracks == 3   \* tracks of the annotation in an alignment run
MaxAlignChunks == 2   \* chunks in an alignment run
MaxChunks == 3        \* chunks given to the Chunk Merger
MaxPieces == 4        \* pieces of a decoded block
MaxWindowPieces == 3  \* pieces of a decoded block of a chunked transcription
MaxWindows == 2       \* windows of a chunked transcription

TextA == <<"a">>
TextAB == <<"A", SP, "b">>
TextB == <<"b">>

\* non-decreasing in (start, end): an order itertracks can yield
InTrackOrder(ts) ==
    \A i \in 1..(Len(ts) - 1) :
        ~SegLess(<<ts[i + 1].start, ts[i + 1].end>>, <<ts[i].start, ts[i].end>>)

TrackLists(spans, speakers, n) ==
    {ts \in SeqsUpTo({Track(sp[1], sp[2], l) : sp \in spans, l \in speakers}, n) :
        InTrackOrder(ts)}

ChunkLists(spans, texts, n) ==
    SeqsUpTo({Chunk(sp[1], sp[2], t) : sp \in spans, t \in texts}, n)

\* Scenarios 1 to 4 of the specification
Hello5 == <<"hello", SP, "world", SP, "how", SP, "are", SP, "you">>
Today5 == <<"how", SP, "are", SP, "you", SP, "today", SP, "friend">>
Hello7 == Hello5 \o <<SP, "today", SP, "friend">>
Scenario1 == <<Chunk(0, 100, Hello5), Chunk(80, 180, Today5)>>
Scenario1Wide == <<Chunk(0, 100, Hello5), Chunk(40, 180, Hello7)>>
Scenario2 == <<Track(0, 50, "A"), Track(55, 90, "A"), Track(90, 150, "B")>>
Scenario3Chunks == <<Chunk(20, 40, <<"x">>)>>
Scenario3Tracks == <<Track(0, 60, "A"), Track(60, 100, "B")>>
Scenario4Chunks == <<Chunk(200, 210, <<"y">>)>>
Scenario4Tracks == <<Track(100, 150, "A"), Track(250, 300, "B")>>

SmootherInputs ==
    TrackLists({<<0, 50>>, <<0, 60>>, <<10, 30>>, <<40, 80>>, <<55, 90>>,
                <<60, 100>>, <<90, 150>>}, {"A", "B"}, MaxTracks)

AlignTrackInputs ==
    TrackLists({<<0, 60>>, <<60, 100>>, <<0, 10>>, <<20, 30>>, <<30, 40>>,
                <<60, 70>>}, {"A", "B"}, MaxAlignTracks)

AlignChunkInputs ==
    ChunkLists({<<20, 40>>, <<40, 60>>, <<100, 120>>, <<30, 30>>}, {<<"x">>},
               MaxAlignChunks)

MergerInputs ==
    ChunkLists({<<0, 100>>, <<40, 180>>, <<50, 150>>, <<80, 180>>, <<20, 30>>,
                <<120, 130>>},
               {<<>>, TextA, <<"a", SP, "b">>, TextB}, MaxChunks)
    \cup {Scenario1, Scenario1Wide}

PipelineChunkInputs ==
    ChunkLists({<<0, 100>>, <<0, 200>>, <<100, 200>>, <<110, 300>>, <<195, 300>>,
                <<195, 201>>, <<200, 100>>}, {TextA, TextAB}, MaxSegments)

PipelineTrackInputs ==
    { <<>>,
      <<Track(0, 150, "SPEAKER_00"), Track(150, 400, "SPEAKER_01")>>,
      <<Track(0, 400, "SPEAKER_00"), Track(100, 300, "SPEAKER_01")>>,
      <<Track(0, 120, "SPEAKER_01"), Track(125, 200, "SPEAKER_01"),
        Track(200, 400, "SPEAKER_00")>>,
      <<Track(0, 100, "SPEAKER_00"), Track(100, 200, "SPEAKER_01"),
        Track(200, 400, "SPEAKER_00")>>,
      <<Track(0, 400, "SPEAKER_01")>> }

MaxMeetings == 1       \* meetings created (start, process-file)
MaxUserMeetings == 2   \* meetings created in a run of requests (start, stream-audio)
MaxTasks == 2          \* background tasks queued (end, process-file)
MaxRows == 2           \* transcript segments an engine returns
MaxStageSegments == 3  \* segments given to a single stage run on its own
MaxStageChunks == 2    \* chunks given to the stages in a run of single stages

\* aligned segments in any order, as a caller may pass them
SegmentInputs ==
    SeqsUpTo({Segment(sp[1], sp[2], l, t) :
                 sp \in {<<0, 100>>, <<20, 100>>, <<95, 200>>, <<100, 101>>, <<150, 300>>},
                 l \in {"SPEAKER_00", "SPEAKER_01"},
                 t \in {TextA, TextAB}}, MaxStageSegments)

StageChunkInputs ==
    ChunkLists({<<0, 100>>, <<40, 180>>, <<120, 130>>}, {<<>>, TextA}, MaxStageChunks)

StageTrackInputs == {<<>>, Scenario3Tracks, Scenario4Tracks}

RECURSIVE Flatten(_)
Flatten(ss) == IF ss = <<>> THEN <<>> ELSE Head(ss) \o Flatten(Tail(ss))

Hi5 == <<"hi", SP, "hi", SP, "hi", SP, "hi", SP, "hi", SP>>

BlockInputs ==
    {Flatten(ps) : ps \in SeqsUpTo({<<"<|0.00|>">>, <<"<|2.00|>">>, <<"<|endoftext|>">>,
                                    <<"hi", SP>>, Hi5, <<"a", SP>>, <<".">>,
                                    <<LongWord, SP>>}, MaxPieces)}

WindowBlockInputs ==
    {Flatten(ps) : ps \in SeqsUpTo({<<"<|0.00|>">>, <<"<|1.00|>">>, <<"<|18.00|>">>,
                                    <<SP, "a">>, <<SP, "b">>}, MaxWindowPieces)}

----------------------------------------------------------------------------
(* The runs.                                                               *)

Empty == <<>>

\* the state before a run on block b, windows w, chunks c, annotation d and
\* aligned segments r
InitRun(b, w, c, d, r) ==
    /\ pc = "start"
    /\ block = b
    /\ windows = w
    /\ chunks = c
    /\ diar = d
    /\ parsed = [chunks |-> Empty, text |-> Empty]
    /\ merged = Empty
    /\ smoothed = Empty
    /\ resmoothed = Empty
    /\ aligned = Empty
    /\ results = r
    /\ cleaned = Empty
    /\ turns = Empty
    /\ formatted = Empty
    /\ meetings = Empty
    /\ tasks = Empty
    /\ transcripts = {}

InitWith(b, w, c, d) == InitRun(b, w, c, d, Empty)

\* _parse_whisper_output(block)
ParseWhisperOutput ==
    /\ pc = "start"
    /\ parsed' = parse_whisper_output(block)
    /\ pc' = "parsed"
    /\ UNCHANGED <<block, windows, chunks, merged, diar, smoothed, resmoothed,
                   aligned, results, cleaned, turns, formatted,
                   lifecycle>>

\* _merge_overlapping_chunks(chunks)
MergeOverlappingChunks ==
    /\ pc = "start"
    /\ LET r == merge_overlapping_chunks(chunks)
       IN chunks' = r.heap /\ merged' = r.merged
    /\ pc' = "merged"
    /\ UNCHANGED <<block, windows, parsed, diar, smoothed, resmoothed,
                   aligned, results, cleaned, turns, formatted,
                   lifecycle>>

\* transcribe_audio_chunked: decode the windows, then _merge_overlapping_chunks
TranscribeAudioChunked ==
    /\ pc = "start"
    /\ LET r == merge_overlapping_chunks(AllChunks(windows, 1))
       IN chunks' = r.heap /\ merged' = r.merged
    /\ pc' = "transcribed"
    /\ UNCHANGED <<block, windows, parsed, diar, smoothed, resmoothed,
                   aligned, results, cleaned, turns, formatted,
                   lifecycle>>

\* clean_diarization = _post_process_diarization(raw_annotation)
PostProcessDiarization ==
    /\ pc = "start"
    /\ smoothed' = post_process_diarization(diar)
    /\ pc' = "smoothed"
    /\ UNCHANGED <<block, windows, parsed, chunks, merged, diar, resmoothed,
                   aligned, results, cleaned, turns, formatted,
                   lifecycle>>

\* _post_process_diarization applied to its own output
PostProcessAgain ==
    /\ pc = "smoothed"
    /\ resmoothed' = post_process_diarization(smoothed)
    /\ pc' = "resmoothed"
    /\ UNCHANGED <<block, windows, parsed, chunks, merged, diar, smoothed,
                   aligned, results, cleaned, turns, formatted,
                   lifecycle>>

\* _align_whisper_with_diarization(chunks, speaker_segments)
AlignWhisperWithDiarization ==
    /\ pc = "smoothed"
    /\ aligned' = align_whisper_with_diarization(chunks, smoothed)
    /\ pc' = "aligned"
    /\ UNCHANGED <<block, windows, parsed, chunks, merged, diar, smoothed,
                   resmoothed, results, cleaned, turns, formatted,
                   lifecycle>>

\* process_with_speakers from the raw annotation and the transcription chunks
ProcessWithSpeakers ==
    /\ pc = "start"
    /\ \E clean_diarization \in {post_process_diarization(diar)} :
       \E aligned_results \in {align_whisper_with_diarization(chunks, clean_diarization)} :
       \E r \in {remove_redundant_segments(sorted_by_start(aligned_results))} :
       \E merged_turns \in {merge_consecutive_speakers(Deref(r.heap, r.cleaned))} :
          /\ smoothed' = clean_diarization
          /\ aligned' = aligned_results
          /\ results' = r.heap
          /\ cleaned' = r.cleaned
          /\ turns' = merged_turns
          /\ formatted' = FormatResults(merged_turns, clean_diarization)
    /\ pc' = "formatted"
    /\ UNCHANGED <<block, windows, parsed, chunks, merged, diar, resmoothed,
                   lifecycle>>

\* _remove_redundant_segments(results), called on its own
RemoveRedundantSegments ==
    /\ pc = "start"
    /\ LET r == remove_redundant_segments(results)
       IN results' = r.heap /\ cleaned' = r.cleaned
    /\ pc' = "cleaned"
    /\ UNCHANGED <<block, windows, parsed, chunks, merged, diar, smoothed, resmoothed,
                   aligned, turns, formatted, lifecycle>>

\* _merge_consecutive_speakers(results), called on its own
MergeConsecutiveSpeakers ==
    /\ pc = "start"
    /\ turns' = merge_consecutive_speakers(results)
    /\ pc' = "turns"
    /\ UNCHANGED <<block, windows, parsed, chunks, merged, diar, smoothed, resmoothed,
                   aligned, results, cleaned, formatted, lifecycle>>

\* POST /start
StartMeeting ==
    /\ ~ActiveMeeting
    /\ meetings' = Append(meetings, Meeting("recording", FALSE))
    /\ UNCHANGED <<tasks, transcripts, pipeline>>

\* POST /{meeting_id}/pause
PauseMeeting(m) ==
    /\ meetings[m].status = "recording"
    /\ meetings' = [meetings EXCEPT ![m].status = "paused", ![m].pause_time = "fresh"]
    /\ UNCHANGED <<tasks, transcripts, pipeline>>

\* POST /{meeting_id}/resume
ResumeMeeting(m) ==
    /\ meetings[m].status = "paused"
    /\ meetings' = [meetings EXCEPT ![m].status = "recording",
                                    ![m].pause_time = "none",
                                    ![m].silence_duration = 0]
    /\ UNCHANGED <<tasks, transcripts, pipeline>>

\* POST /{meeting_id}/end: the status is committed and process_meeting queued
EndMeeting(m) ==
    /\ Len(tasks) < MaxTasks
    /\ meetings[m].status # "completed"
    /\ meetings' = [meetings EXCEPT ![m].status = "processing"]
    /\ tasks' = Append(tasks, Task("process_meeting", m, meetings[m].audio_file_path))
    /\ UNCHANGED <<transcripts, pipeline>>

\* POST /{meeting_id}/cancel
CancelMeeting(m) ==
    /\ meetings[m].status \in {"processing", "recording", "paused"}
    /\ meetings' = [meetings EXCEPT ![m].status = "cancelled"]
    /\ UNCHANGED <<tasks, transcripts, pipeline>>

\* POST /process-file: a new meeting in "processing" and process_file queued
ProcessAudioFile ==
    /\ Len(tasks) < MaxTasks
    /\ meetings' = Append(meetings, Meeting("processing", TRUE))
    /\ tasks' = Append(tasks, Task("process_file", Len(meetings) + 1, TRUE))
    /\ UNCHANGED <<transcripts, pipeline>>

\* POST /upload/{meeting_id}: the chunk is stored, then check_silence and commit
UploadAudioChunk(m, small) ==
    /\ meetings[m].status \in {"recording", "paused", "processing"}
    /\ small => meetings[m].silence_duration < SILENCE_DURATION_SECONDS
    /\ meetings' = [meetings EXCEPT
                       ![m] = check_silence([@ EXCEPT !.audio_file_path = TRUE], small)]
    /\ UNCHANGED <<tasks, transcripts, pipeline>>

\* 15 minutes pass after pause_time
TimePasses(m) ==
    /\ meetings[m].pause_time = "fresh"
    /\ meetings' = [meetings EXCEPT ![m].pause_time = "old"]
    /\ UNCHANGED <<tasks, transcripts, pipeline>>

\* the rows a session holds after k calls of db_session.add
Pending(t, k) == {Transcript(tasks[t].meeting_id, n, t) : n \in 1..k}

\* the background task starts: process_meeting does nothing at all when the
\* meeting has no audio file
TaskStart(t) ==
    /\ tasks[t].pc = "queued"
    /\ tasks' = [tasks EXCEPT ![t].pc =
                    IF tasks[t].kind = "process_meeting" /\ ~tasks[t].audio_file_path
                    THEN "done" ELSE "engine"]
    /\ UNCHANGED <<meetings, transcripts, pipeline>>

\* the engine call returns n transcript segments
EngineReturns(t, n) ==
    /\ tasks[t].pc = "engine"
    /\ tasks' = [tasks EXCEPT ![t].pc = "adding", ![t].segments = n]
    /\ UNCHANGED <<meetings, transcripts, pipeline>>

\* the engine call raises: the except block commits status "error"
EngineFails(t) ==
    /\ tasks[t].pc = "engine"
    /\ tasks' = [tasks EXCEPT ![t].pc = "failed"]
    /\ meetings' = [meetings EXCEPT ![tasks[t].meeting_id].status = "error"]
    /\ UNCHANGED <<transcripts, pipeline>>

\* one pass of the loop over the segments: db_session.add(transcript)
AddTranscript(t) ==
    /\ tasks[t].pc = "adding"
    /\ tasks[t].added < tasks[t].segments
    /\ tasks' = [tasks EXCEPT ![t].added = @ + 1]
    /\ UNCHANGED <<meetings, transcripts, pipeline>>

\* one pass of the loop raises (a segment without "text", "start" or "end").
\* process_meeting closes its session in the inner finally and commits
\* "error" through a new session; process_file commits "error" through the
\* session that holds the rows added so far, and the commit stores them.
AddTranscriptFails(t) ==
    /\ tasks[t].pc = "adding"
    /\ tasks[t].added < tasks[t].segments
    /\ tasks' = [tasks EXCEPT ![t].pc = "failed"]
    /\ meetings' = [meetings EXCEPT ![tasks[t].meeting_id].status = "error"]
    /\ transcripts' = IF tasks[t].kind = "process_file"
                      THEN transcripts \cup Pending(t, tasks[t].added)
                      ELSE transcripts
    /\ UNCHANGED pipeline

\* after the loop: status "completed" and the rows in one commit
CommitTranscripts(t) ==
    /\ tasks[t].pc = "adding"
    /\ tasks[t].added = tasks[t].segments
    /\ tasks' = [tasks EXCEPT ![t].pc = "done"]
    /\ meetings' = [meetings EXCEPT ![tasks[t].meeting_id].status = "completed"]
    /\ transcripts' = transcripts \cup Pending(t, tasks[t].added)
    /\ UNCHANGED pipeline

\* POST /stream-audio without meeting_id: a new meeting in "recording" and
\* start_streaming queued
StreamAudio ==
    /\ Len(tasks) < MaxTasks
    /\ meetings' = Append(meetings, Meeting("recording", FALSE))
    /\ tasks' = Append(tasks, Task("start_streaming", Len(meetings) + 1, FALSE))
    /\ UNCHANGED <<transcripts, pipeline>>

\* POST /stream-audio with meeting_id: start_streaming queued for a meeting
\* that is recording or paused
StreamAudioInto(m) ==
    /\ Len(tasks) < MaxTasks
    /\ meetings[m].status \in {"recording", "paused"}
    /\ tasks' = Append(tasks, Task("start_streaming", m, meetings[m].audio_file_path))
    /\ UNCHANGED <<meetings, transcripts, pipeline>>

\* start_streaming: the service is built and the microphone opened
StreamStart(t) ==
    /\ tasks[t].kind = "start_streaming"
    /\ tasks[t].pc = "queued"
    /\ tasks' = [tasks EXCEPT ![t].pc = "streaming"]
    /\ UNCHANGED <<meetings, transcripts, pipeline>>

\* building the service or opening the microphone raises: status "error"
StreamFails(t) ==
    /\ tasks[t].kind = "start_streaming"
    /\ tasks[t].pc = "queued"
    /\ tasks' = [tasks EXCEPT ![t].pc = "failed"]
    /\ meetings' = [meetings EXCEPT ![tasks[t].meeting_id].status = "error"]
    /\ UNCHANGED <<transcripts, pipeline>>

\* on_transcript with a formatted turn: the row is added and committed
StreamTranscript(t) ==
    /\ tasks[t].kind = "start_streaming"
    /\ tasks[t].pc = "streaming"
    /\ tasks[t].added < MaxRows
    /\ tasks' = [tasks EXCEPT ![t].added = @ + 1]
    /\ transcripts' = transcripts
                          \cup {Transcript(tasks[t].meeting_id, tasks[t].added + 1, t)}
    /\ UNCHANGED <<meetings, pipeline>>

\* on_session_end: status "completed"
StreamSessionEnd(t) ==
    /\ tasks[t].kind = "start_streaming"
    /\ tasks[t].pc = "streaming"
    /\ tasks' = [tasks EXCEPT ![t].pc = "ended"]
    /\ meetings' = [meetings EXCEPT ![tasks[t].meeting_id].status = "completed"]
    /\ UNCHANGED <<transcripts, pipeline>>

\* start_streaming returned, with or without a session end; saved: the WAV
\* file was written and its path is stored
StreamSaveWav(t, saved) ==
    /\ tasks[t].kind = "start_streaming"
    /\ tasks[t].pc \in {"streaming", "ended"}
    /\ tasks' = [tasks EXCEPT ![t].pc = "done"]
    /\ meetings' = [meetings EXCEPT ![tasks[t].meeting_id].audio_file_path =
                        IF saved THEN TRUE ELSE @]
    /\ UNCHANGED <<transcripts, pipeline>>

\* the steps of background task t when it is start_streaming
StreamStep(t) ==
    \/ StreamStart(t)
    \/ StreamFails(t)
    \/ StreamTranscript(t)
    \/ StreamSessionEnd(t)
    \/ \E saved \in BOOLEAN : StreamSaveWav(t, saved)

\* the steps of background task t
TaskStep(t) ==
    \/ TaskStart(t)
    \/ \E n \in 0..MaxRows : EngineReturns(t, n)
    \/ EngineFails(t)
    \/ AddTranscript(t)
    \/ AddTranscriptFails(t)
    \/ CommitTranscripts(t)

InitMeeting ==
    /\ InitRun(Empty, Empty, Empty, Empty, Empty)

NextMeeting ==
    \/ (Len(meetings) < MaxMeetings /\ StartMeeting)
    \/ (Len(meetings) < MaxMeetings /\ ProcessAudioFile)
    \/ \E m \in DOMAIN meetings :
          \/ PauseMeeting(m)
          \/ ResumeMeeting(m)
          \/ EndMeeting(m)
          \/ CancelMeeting(m)
          \/ \E small \in BOOLEAN : UploadAudioChunk(m, small)
          \/ TimePasses(m)
    \/ \E t \in DOMAIN tasks : TaskStep(t)

\* a background task that was queued runs, and each of its steps is taken
FairTasks == \A t \in 1..MaxTasks : WF_vars(t \in DOMAIN tasks /\ TaskStep(t))

SpecMeeting == InitMeeting /\ [][NextMeeting]_vars /\ FairTasks

\* the requests of one user that create, stream into, pause, resume, end and
\* cancel meetings, with the background tasks they queue
NextRequests ==
    \/ (Len(meetings) < MaxUserMeetings /\ StartMeeting)
    \/ (Len(meetings) < MaxUserMeetings /\ StreamAudio)
    \/ \E m \in DOMAIN meetings :
          \/ StreamAudioInto(m)
          \/ PauseMeeting(m)
          \/ ResumeMeeting(m)
          \/ EndMeeting(m)
          \/ CancelMeeting(m)
    \/ \E t \in DOMAIN tasks :
          \/ StreamStep(t)
          \/ (tasks[t].kind = "process_meeting" /\ TaskStep(t))

SpecRequests == InitMeeting /\ [][NextRequests]_vars

Init == \E c \in PipelineChunkInputs, d \in PipelineTrackInputs :
            InitWith(Empty, Empty, c, d)
Next == ProcessWithSpeakers
Spec == Init /\ [][Next]_vars

InitParse == \E b \in BlockInputs : InitWith(b, Empty, Empty, Empty)
NextParse == ParseWhisperOutput
SpecParse == InitParse /\ [][NextParse]_vars

InitChunks == \E c \in MergerInputs : InitWith(Empty, Empty, c, Empty)
NextChunks == MergeOverlappingChunks
SpecChunks == InitChunks /\ [][NextChunks]_vars

InitTranscribe ==
    \E w \in [1..MaxWindows -> WindowBlockInputs] : InitWith(Empty, w, Empty, Empty)
NextTranscribe == TranscribeAudioChunked
SpecTranscribe == InitTranscribe /\ [][NextTranscribe]_vars

InitSmooth == \E d \in SmootherInputs \cup {Scenario2} : InitWith(Empty, Empty, Empty, d)
NextSmooth == PostProcessDiarization \/ PostProcessAgain
SpecSmooth == InitSmooth /\ [][NextSmooth]_vars

InitAlign ==
    \/ \E c \in AlignChunkInputs, d \in AlignTrackInputs : InitWith(Empty, Empty, c, d)
    \/ InitWith(Empty, Empty, Scenario3Chunks, Scenario3Tracks)
    \/ InitWith(Empty, Empty, Scenario4Chunks, Scenario4Tracks)
NextAlign == PostProcessDiarization \/ AlignWhisperWithDiarization
SpecAlign == InitAlign /\ [][NextAlign]_vars

\* every stage run on its own, on lists a caller may pass
InitStages ==
    \/ \E c \in StageChunkInputs, d \in StageTrackInputs : InitWith(Empty, Empty, c, d)
    \/ \E r \in SegmentInputs : InitRun(Empty, Empty, Empty, Empty, r)
NextStages ==
    \/ MergeOverlappingChunks
    \/ PostProcessDiarization
    \/ AlignWhisperWithDiarization
    \/ RemoveRedundantSegments
    \/ MergeConsecutiveSpeakers
SpecStages == InitStages /\ [][NextStages]_vars

----------------------------------------------------------------------------
(* Properties of the whole pipeline (Spec).                                *)

Done == pc = "formatted"

\* the segments the Redundancy Remover returned, as the Turn Merger sees them
Kept == Deref(results, cleaned)

Duration(x) == x.end - x.start

TotalDuration(xs) == SeqSum([i \in DOMAIN xs |-> Duration(xs[i])])

\* the time two segments share
Shared(a, b) == Max(0, Min(a.end, b.end) - Max(a.start, b.start))

\* lower-cased word set of a text, written out for the properties
Words(text) ==
    {[i \in DOMAIN w |-> IF w[i] = "A" THEN "a" ELSE IF w[i] = "B" THEN "b" ELSE w[i]] :
        w \in Range(split(text))}

NoOverlapIn(xs) == \A i \in 1..(Len(xs) - 1) : xs[i + 1].start >= xs[i].end

\* C1 as stated: consecutive segments of the final output never overlap in time.
C1_FinalNeverOverlaps == Done => NoOverlapIn(formatted)

\* C1, amended: consecutive segments of the final output overlap only when the
\* Redundancy Remover kept a segment that shares 1.0 s or more with the segment
\* kept before it; an overlap below 1.0 s is always clamped away.
C1_OverlapOnlyWhenKept ==
    Done => \/ NoOverlapIn(formatted)
            \/ \E j \in 1..(Len(Kept) - 1) : Shared(Kept[j], Kept[j + 1]) >= DriftLimit

\* a run in which rule 2 moved a start and the final output has several
\* segments, none overlapping
C1_Witness ==
    /\ Done
    /\ Len(formatted) >= 2
    /\ results # sorted_by_start(aligned)
    /\ NoOverlapIn(formatted)

\* B repeats A: at least 80% of B lies in A and every word of B is a word of A
Repeats(a, b) ==
    /\ 10 * Shared(a, b) >= 8 * Duration(b)
    /\ Words(b.text) \subseteq Words(a.text)

\* C2 as stated: no two distinct segments of the final output where one
\* repeats the other.
C2_NoContainedPair ==
    Done => \A i, j \in DOMAIN formatted : i # j => ~Repeats(formatted[i], formatted[j])

\* C2, amended: in the output of the Redundancy Remover no segment lies for
\* more than 80% of its duration in the segment kept immediately before it
\* while all its words are words of that segment.
C2_NoGhostAfterPrev ==
    Done => \A j \in 1..(Len(Kept) - 1) :
                ~(/\ 10 * Shared(Kept[j], Kept[j + 1]) > 8 * Duration(Kept[j + 1])
                  /\ Words(Kept[j + 1].text) \subseteq Words(Kept[j].text))

\* a run in which rule 1 discarded a segment and at least two were kept
C2_Witness ==
    /\ Done
    /\ Len(Kept) >= 2
    /\ \E i \in DOMAIN results :
          /\ i \notin Range(cleaned)
          /\ Duration(results[i]) > MinDuration

\* sum of end - start over the chunks given to the alignment
ChunkTotal == SeqSum([i \in DOMAIN chunks |-> chunks[i].timestamp[2] - chunks[i].timestamp[1]])

\* the same sum over the chunks with end > start only
PositiveChunkTotal ==
    SeqSum([i \in DOMAIN chunks |->
              Max(0, chunks[i].timestamp[2] - chunks[i].timestamp[1])])

\* C3 as stated: the final output never lasts longer in total than the chunks
\* given to the alignment (read here for chunks that all have end > start).
C3_TotalNeverExceeds ==
    (Done /\ \A i \in DOMAIN chunks : chunks[i].timestamp[2] > chunks[i].timestamp[1])
        => TotalDuration(formatted) <= ChunkTotal

\* C3, amended: the output of the Redundancy Remover never lasts longer in
\* total than the chunks with end > start, and the Turn Merger adds at most
\* the bridged gap, below 2.0 s, for every fold it makes.
C3_TotalWithinGaps ==
    Done => /\ TotalDuration(Kept) <= PositiveChunkTotal
            /\ TotalDuration(formatted)
                 <= TotalDuration(Kept) + TurnGap * (Len(Kept) - Len(formatted))

\* a run in which a fold bridged a gap
C3_Witness ==
    /\ Done
    /\ Len(formatted) < Len(Kept)
    /\ TotalDuration(formatted) > TotalDuration(Kept)

\* C11 as stated: no chunks, or no speaker intervals, gives an empty transcript.
C11_EmptyInputEmptyTranscript ==
    (Done /\ (chunks = <<>> \/ smoothed = <<>>)) => formatted = <<>>

\* C11, amended: no chunks gives an empty transcript; no speaker intervals
\* gives a transcript in which every turn carries the default label
\* "SPEAKER_00" and is not marked as overlap, and that transcript is empty
\* only when no chunk has end > start.
C11_EmptyChunksOrSentinel ==
    Done =>
        /\ chunks = <<>> => formatted = <<>>
        /\ smoothed = <<>> =>
              /\ \A i \in DOMAIN formatted :
                    /\ formatted[i].speaker_id = "SPEAKER_00"
                    /\ formatted[i].speaker_label = "Konusmaci 1"
                    /\ ~formatted[i].is_overlap
              /\ formatted = <<>>
                    <=> \A i \in DOMAIN chunks :
                           chunks[i].timestamp[2] <= chunks[i].timestamp[1]

\* a run without speaker intervals that returned a transcript
C11_Witness ==
    /\ Done
    /\ smoothed = <<>>
    /\ diar = <<>>
    /\ formatted # <<>>

----------------------------------------------------------------------------
(* Properties of the stages run on their own (SpecStages).                 *)

SortedByStart(xs) == \A i \in 1..(Len(xs) - 1) : xs[i].start <= xs[i + 1].start

\* C12: _remove_redundant_segments does not return a cleaned list for an
\* input that is not sorted ascending by start.
C12_UnsortedInputRejected ==
    [][(pc = "start" /\ ~SortedByStart(results)) => pc' # "cleaned"]_vars

\* C13: a stage leaves the elements of the list passed to it as they were:
\* the chunks given to _merge_overlapping_chunks, the chunks and intervals
\* given to _align_whisper_with_diarization and the segments given to
\* _remove_redundant_segments and _merge_consecutive_speakers.
C13_StagesLeaveInputUnchanged ==
    [][pc' \in {"merged", "aligned", "cleaned", "turns"}
          => /\ chunks' = chunks
             /\ smoothed' = smoothed
             /\ results' = results]_vars

\* the segment accepted last before segment i, given the accepted indices
PrevAccepted(acc, i) ==
    CHOOSE j \in Range(acc) : j < i /\ \A k \in Range(acc) : k < i => k <= j

\* current repeats prev: more than 80% of its duration lies in prev and each
\* of its lower-cased words is a word of prev
DuplicateOf(prev, current) ==
    /\ Duration(current) > 0
    /\ 10 * Shared(prev, current) > 8 * Duration(current)
    /\ Words(current.text) \subseteq Words(prev.text)

Increasing(acc) == \A i \in 1..(Len(acc) - 1) : acc[i] < acc[i + 1]

C22_ClampBelowOneSecond ==
    [][(pc = "start" /\ pc' = "cleaned")
          => \A i \in 2..Len(results) :
                LET prev == results'[PrevAccepted(cleaned', i)]
                    current == results[i]
                IN /\ (/\ ~DuplicateOf(prev, current)
                        /\ current.start < prev.end
                        /\ Shared(prev, current) < DriftLimit)
                          => results'[i] = [current EXCEPT !.start = prev.end]
                   /\ Shared(prev, current) >= DriftLimit
                          => results'[i].start = current.start]_vars

\* the second segment was given as (9.5, 20.0) and returned as (10.0, 20.0);
\* the third overlaps it for 5.0 s and kept its start
C22_Witness ==
    /\ pc = "cleaned"
    /\ cleaned = <<1, 2, 3>>
    /\ results[1].end = 100
    /\ results[2].start = 100 /\ results[2].end = 200
    /\ results[3].start = 150 /\ results[3].end = 300

\* the list _remove_redundant_segments returned
Cleaned == Deref(results, cleaned)

\* C23: no segment of the list returned by _remove_redundant_segments has
\* end - start <= 0.1 s, at any position, the first included.
C23_NoShortSegment ==
    pc = "cleaned" => \A j \in DOMAIN Cleaned : Duration(Cleaned[j]) > MinDuration

SetMax(S) == CHOOSE x \in S : \A y \in S : y <= x

\* the texts of segments i..j of xs, joined with single spaces
RECURSIVE JoinTexts(_, _, _)
JoinTexts(xs, i, j) ==
    IF i > j THEN <<>>
    ELSE IF i = j THEN xs[i].text
    ELSE xs[i].text \o <<SP>> \o JoinTexts(xs, i + 1, j)

\* the largest end among segments i..j of xs
EndOf(xs, i, j) == SetMax({xs[k].end : k \in i..j})

\* turns is the folding of xs whose turns begin at the segments in firsts:
\* a segment is folded exactly when it has the speaker of the turn so far and
\* starts less than 2.0 s after the end of the turn so far
IsFolding(xs, firsts, ts) ==
    LET First(i) == SetMax({j \in firsts : j <= i})
        Last(j) == SetMax({i \in DOMAIN xs : First(i) = j})
        Folded(i) == /\ xs[i].speaker = xs[First(i - 1)].speaker
                     /\ xs[i].start - EndOf(xs, First(i - 1), i - 1) < TurnGap
    IN /\ 1 \in firsts
       /\ \A i \in 2..Len(xs) : i \notin firsts <=> Folded(i)
       /\ Len(ts) = Cardinality(firsts)
       /\ \A j \in firsts :
             LET t == ts[Cardinality({k \in firsts : k <= j})]
             IN /\ t.start = xs[j].start
                /\ t.speaker = xs[j].speaker
                /\ t.end = EndOf(xs, j, Last(j))
                /\ t.text = JoinTexts(xs, j, Last(j))

\* C24: _merge_consecutive_speakers folds a segment into the current turn
\* exactly when it has the same speaker and next.start - current.end < 2.0
\* (negative gaps included), with end = max(current.end, next.end) and the
\* text appended after one space; no two consecutive turns of the output have
\* the same speaker and a gap below 2.0 s, and each turn keeps the start of
\* its first segment.
C24_FoldExactlyWhen ==
    (pc = "turns" /\ results # <<>>)
        => /\ \E firsts \in SUBSET DOMAIN results : IsFolding(results, firsts, turns)
           /\ \A k \in 1..(Len(turns) - 1) :
                 ~(/\ turns[k].speaker = turns[k + 1].speaker
                   /\ turns[k + 1].start - turns[k].end < TurnGap)

\* two turns of one speaker: the second segment starts 4.9 s or more after
\* the first ends, the third starts before the second ends and ends before it
C24_Witness ==
    /\ pc = "turns"
    /\ Len(results) = 3
    /\ Len(turns) = 2
    /\ turns[1].speaker = turns[2].speaker
    /\ results[3].start < results[2].end
    /\ results[3].end < results[2].end
    /\ turns[2].end = results[2].end
    /\ turns[2].text = results[2].text \o <<SP>> \o results[3].text

\* C30: the Turn Merger conserves text and order: the texts of the turns
\* returned by _merge_consecutive_speakers, joined with single spaces, are the
\* texts of the input segments joined with single spaces in input order, and
\* there are at most as many turns as input segments.
C30_TextConserved ==
    pc = "turns"
        => /\ JoinTexts(turns, 1, Len(turns)) = JoinTexts(results, 1, Len(results))
           /\ Len(turns) <= Len(results)

\* three segments became two turns: the first two were folded, the third
\* has another speaker
C30_Witness ==
    /\ pc = "turns"
    /\ Len(results) = 3
    /\ Len(turns) = 2
    /\ turns[1].text = results[1].text \o <<SP>> \o results[2].text
    /\ turns[2].speaker # turns[1].speaker
    /\ turns[2].text = results[3].text

\* C28: given a list sorted ascending by start, _remove_redundant_segments
\* returns a list sorted ascending by start.
C28_SortedStaysSorted ==
    [][(pc = "start" /\ SortedByStart(results) /\ pc' = "cleaned")
          => SortedByStart(Deref(results', cleaned'))]_vars

----------------------------------------------------------------------------
(* Properties of the Diarization Smoother (SpecSmooth).                    *)

DistinctSegments(ts) ==
    \A i, j \in DOMAIN ts :
        i # j => <<ts[i].start, ts[i].end>> # <<ts[j].start, ts[j].end>>

\* C4: applying _post_process_diarization to its own output returns the same
\* list of (start, end, speaker) intervals (read here for annotations that
\* hold one track per segment).
C4_SmoothingIdempotent ==
    (pc = "resmoothed" /\ DistinctSegments(diar)) => resmoothed = smoothed

\* C29: smoothing loses no speaking time: every interval of the raw
\* annotation with end > start lies within an interval of the result of
\* _post_process_diarization that has the same speaker.
C29_NoSpeakingTimeLost ==
    pc = "smoothed"
        => \A i \in DOMAIN diar :
              diar[i].end > diar[i].start
                  => \E j \in DOMAIN smoothed :
                        /\ smoothed[j].speaker = diar[i].speaker
                        /\ smoothed[j].start <= diar[i].start
                        /\ diar[i].end <= smoothed[j].end

\* C8: an interval is merged into the current one exactly when it has the
\* same speaker and starts less than 1.0 s after the current end: Scenario 2
\* gives [(0,9,A),(9,15,B)], two intervals become one exactly in that case,
\* and intervals whose neighbours in start order all have another speaker
\* are returned as they are, however close two of the same speaker lie.
C8_MergeExactlySameSpeakerGap ==
    pc = "smoothed" =>
        /\ diar = Scenario2 => smoothed = <<Track(0, 90, "A"), Track(90, 150, "B")>>
        /\ (Len(diar) = 2 /\ DistinctSegments(diar)) =>
              IF diar[1].speaker = diar[2].speaker /\ diar[2].start - diar[1].end < 10
              THEN smoothed = <<Track(diar[1].start, diar[2].end, diar[1].speaker)>>
              ELSE smoothed = diar
        /\ (DistinctSegments(diar)
            /\ \A i \in 1..(Len(diar) - 1) : diar[i].speaker # diar[i + 1].speaker)
              => smoothed = diar

\* two intervals of one speaker less than 1.0 s apart in time, kept apart by
\* an interval of another speaker between them in start order
C8_Witness ==
    /\ pc = "smoothed"
    /\ Len(diar) = 3
    /\ DistinctSegments(diar)
    /\ diar[1].speaker = diar[3].speaker
    /\ diar[1].speaker # diar[2].speaker
    /\ diar[3].start - diar[1].end < 10
    /\ Len(smoothed) = 3

----------------------------------------------------------------------------
(* Properties of the Chunk Merger (SpecChunks, SpecTranscribe).            *)

\* C5 as stated: Scenario 1 is merged into (0,18,"hello world how are you
\* today friend").
C5_Scenario1Stitched ==
    [][(pc = "start" /\ chunks = Scenario1)
          => Deref(chunks', merged') = <<Chunk(0, 180, Hello7)>>]_vars

\* C5, amended: Scenario 1 is returned as two chunks, unchanged (its overlap
\* of 2 s is not more than half of the 10 s of the first chunk); the one chunk
\* (0,18,"hello world how are you today friend") results when the second
\* chunk is (4,18,"hello world how are you today friend").
C5_Scenario1Unchanged ==
    [][pc = "start" =>
          /\ chunks = Scenario1 => Deref(chunks', merged') = Scenario1
          /\ chunks = Scenario1Wide
                => Deref(chunks', merged') = <<Chunk(0, 180, Hello7)>>]_vars

\* the merger has run on the wide variant of Scenario 1 and stitched it
C5_Witness ==
    /\ pc = "merged"
    /\ merged = <<1>>
    /\ chunks = <<Chunk(0, 180, Hello7), Chunk(40, 180, Hello7)>>

\* what the rule of the Chunk Merger asks for, on values: an accumulated chunk
\* is its timestamp, its words, and the input chunk it still is (0 once
\* something was stitched into it)
Accumulated(c, i) == [timestamp |-> c.timestamp, words |-> split(c.text), from |-> i]

\* cur starts inside prev, more than half of prev lies behind that start, and
\* the last k words of prev are the first k words of cur, k = min(5, words of prev)
MustStitch(prev, cur) ==
    LET k == Min(5, Len(prev.words))
        w == split(cur.text)
    IN /\ cur.timestamp[1] < prev.timestamp[2]
       /\ 2 * (prev.timestamp[2] - cur.timestamp[1])
            > prev.timestamp[2] - prev.timestamp[1]
       /\ Len(w) >= k
       /\ \A j \in 1..k : prev.words[Len(prev.words) - k + j] = w[j]

RECURSIVE ExpectedChunks(_, _, _)
ExpectedChunks(input, acc, i) ==
    IF i > Len(input) THEN acc
    ELSE LET prev == acc[Len(acc)]
             cur == input[i]
             k == Min(5, Len(prev.words))
             w == split(cur.text)
         IN IF MustStitch(prev, cur)
            THEN ExpectedChunks(input,
                     [acc EXCEPT ![Len(acc)] =
                         [timestamp |-> <<prev.timestamp[1], cur.timestamp[2]>>,
                          words |-> prev.words \o SubSeq(w, k + 1, Len(w)),
                          from |-> 0]],
                     i + 1)
            ELSE ExpectedChunks(input, Append(acc, Accumulated(cur, i)), i + 1)

\* C16: the Chunk Merger stitches cur into the last accumulated chunk exactly
\* when cur starts before its end, the overlap is more than half of its
\* duration and its last k = min(5, its word count) words are the first k
\* words of cur; the stitched chunk gets the words of cur beyond the first k
\* and the end of cur.  In every other case cur is appended, timestamp and
\* text unchanged.
C16_StitchExactlyOnMatch ==
    [][(pc = "start" /\ chunks # <<>>) =>
          LET expected == ExpectedChunks(chunks, <<Accumulated(chunks[1], 1)>>, 2)
              returned == Deref(chunks', merged')
          IN /\ Len(returned) = Len(expected)
             /\ \A n \in DOMAIN expected :
                   /\ returned[n].timestamp = expected[n].timestamp
                   /\ split(returned[n].text) = expected[n].words
                   /\ expected[n].from # 0 => returned[n] = chunks[expected[n].from]]_vars

\* a run in which "a b" was stitched into "a" and a third chunk was appended
C16_Witness ==
    /\ pc = "merged"
    /\ Len(chunks) = 3
    /\ merged = <<1, 3>>
    /\ chunks[2].text = <<"a", SP, "b">>
    /\ chunks[1].text = <<"a", SP, "b">>
    /\ chunks[1].timestamp[2] = chunks[2].timestamp[2]
    /\ chunks[1].timestamp[1] < chunks[2].timestamp[1]

\* C17: a chunk that follows an accumulated chunk with empty text is appended
\* as a new chunk, never stitched into it.
C17_EmptyPrevNeverStitched ==
    [][pc = "start" =>
          \A i \in 1..(Len(chunks) - 1) :
              (chunks[i].text = <<>> /\ i \in Range(merged')) => (i + 1) \in Range(merged')]_vars

\* C6: every chunk returned by transcribe_audio_chunked has end > start.
C6_ChunksHavePositiveSpan ==
    pc = "transcribed" =>
        \A i \in DOMAIN merged :
            chunks[merged[i]].timestamp[2] > chunks[merged[i]].timestamp[1]

----------------------------------------------------------------------------
(* Properties of the Hallucination Filter (SpecParse).                     *)

\* C7: a block of more than 10 words with fewer than 10% distinct words
\* yields no chunk (so the 11 words "hi hi ... hi" yield none), and a block of
\* 10 words or fewer is never discarded by the whole-block rule: its text is
\* returned and it goes through the ordinary parsing.
C7_LoopBlockDiscarded ==
    pc = "parsed" =>
        LET n == Len(split(block))
            distinct == Cardinality(Range(split(block)))
        IN /\ (n > 10 /\ 10 * distinct < n) => parsed.chunks = <<>>
           /\ n <= 10 => parsed.text = block

\* the 11-word block of Scenario 5 has been parsed
C7_Witness ==
    /\ pc = "parsed"
    /\ split(block) = [i \in 1..11 |-> <<"hi">>]
    /\ parsed.chunks = <<>>

\* the sub-chunks that come from timestamp markers of the block: when the
\* loop over the markers emitted any, they are the chunks returned
TimedOutput ==
    IF TimedChunks(SplitParts(block, <<>>, <<>>), 2) # <<>> THEN parsed.chunks ELSE <<>>

OnlyPunctuation(text) ==
    text # <<>> /\ \A i \in DOMAIN text : text[i] \in {".", ",", "?", "!", ":"}

\* C18: no sub-chunk emitted from timestamp markers has end <= start, empty
\* text, text made of punctuation characters only, or more than 4 words that
\* are all the same.
C18_SubChunksAreClean ==
    pc = "parsed" =>
        \A i \in DOMAIN TimedOutput :
            LET c == TimedOutput[i]
                w == split(c.text)
            IN /\ c.timestamp[2] > c.timestamp[1]
               /\ c.text # <<>>
               /\ ~OnlyPunctuation(c.text)
               /\ ~(Len(w) > 4 /\ Cardinality(Range(w)) = 1)

HasTimestamp(text) == \E i \in DOMAIN text : IsTimestamp(text[i])

\* the text of the block without its markers, stripped
Stripped == strip(SelectSeq(block, LAMBDA tok : ~IsMarker(tok)))

\* C19: a chunk that does not come from a timestamp marker is the synthetic
\* chunk (0.0, 2.0, text) and is emitted only when the block has no
\* timestamp marker and its stripped text is non-empty and shorter than 200
\* characters; so a block whose sub-chunks were all discarded yields no chunk,
\* and so does text of 200 characters or more without timestamps.
C19_SyntheticOnlyWithoutMarkers ==
    (pc = "parsed" /\ TimedOutput = <<>> /\ parsed.chunks # <<>>) =>
        /\ ~HasTimestamp(block)
        /\ Stripped # <<>>
        /\ TextLen(Stripped) < 200
        /\ parsed.chunks = <<Chunk(0, 20, Stripped)>>

----------------------------------------------------------------------------
(* Properties of the Alignment Engine (SpecAlign).                         *)

\* the chunks that get a segment, in order
PositiveChunks == SelectSeq(chunks, LAMBDA c : c.timestamp[2] > c.timestamp[1])

\* the time a chunk shares with a speaker interval
Common(c, seg) ==
    Max(0, Min(c.timestamp[2], seg.end) - Max(c.timestamp[1], seg.start))

\* summed overlap of the chunk with the intervals of one speaker
LabelTotal(c, l) ==
    SeqSum([i \in DOMAIN smoothed |->
              IF smoothed[i].speaker = l THEN Common(c, smoothed[i]) ELSE 0])

\* the speakers with the largest summed overlap, none when nothing overlaps
Best(c) ==
    {l \in {smoothed[i].speaker : i \in DOMAIN smoothed} :
        /\ LabelTotal(c, l) > 0
        /\ \A i \in DOMAIN smoothed : LabelTotal(c, smoothed[i].speaker) <= LabelTotal(c, l)}

FirstIndex(S) == CHOOSE i \in S : \A j \in S : i <= j

\* the best speaker that appears first in the interval list
FirstListed(c) ==
    smoothed[FirstIndex({i \in DOMAIN smoothed : smoothed[i].speaker \in Best(c)})].speaker

\* the best speaker whose first interval overlapping the chunk comes first
FirstOverlapping(c) ==
    smoothed[FirstIndex({i \in DOMAIN smoothed :
                            /\ smoothed[i].speaker \in Best(c)
                            /\ Common(c, smoothed[i]) > 0})].speaker

\* C9 as stated: the speaker with the largest summed overlap is assigned and,
\* on a tie, the one that appears first in the speaker interval list.
C9_TieToFirstListed ==
    pc = "aligned" =>
        /\ Len(aligned) = Len(PositiveChunks)
        /\ \A k \in DOMAIN aligned :
              Best(PositiveChunks[k]) # {}
                  => aligned[k].speaker = FirstListed(PositiveChunks[k])

\* C9, amended: the speaker with the largest summed overlap is assigned and,
\* on a tie, the one whose first interval that overlaps the chunk comes first
\* in the speaker interval list; chunk (2,4) with (0,6,A),(6,10,B) gets A.
C9_TieToFirstOverlapping ==
    pc = "aligned" =>
        /\ Len(aligned) = Len(PositiveChunks)
        /\ \A k \in DOMAIN aligned :
              Best(PositiveChunks[k]) # {}
                  => aligned[k].speaker = FirstOverlapping(PositiveChunks[k])
        /\ (chunks = Scenario3Chunks /\ smoothed = Scenario3Tracks)
              => aligned[1].speaker = "A"

\* a chunk has been aligned for which two speakers tie at the largest sum
C9_Witness ==
    /\ pc = "aligned"
    /\ \E k \in DOMAIN aligned : Cardinality(Best(PositiveChunks[k])) = 2

\* C20: the alignment returns one segment for every chunk with end > start,
\* in the order of the chunks, with the start, end and text of its chunk;
\* a chunk with end <= start gets no segment.
C20_OneSegmentPerPositiveChunk ==
    pc = "aligned" =>
        /\ Len(aligned) = Cardinality({i \in DOMAIN chunks :
                                          chunks[i].timestamp[2] > chunks[i].timestamp[1]})
        /\ \A k \in DOMAIN aligned :
              /\ aligned[k].start = PositiveChunks[k].timestamp[1]
              /\ aligned[k].end = PositiveChunks[k].timestamp[2]
              /\ aligned[k].text = PositiveChunks[k].text
              /\ aligned[k].end > aligned[k].start

\* an alignment of a chunk with end = start followed by one with end > start
C20_Witness ==
    /\ pc = "aligned"
    /\ Len(chunks) = 2
    /\ chunks[1].timestamp[2] = chunks[1].timestamp[1]
    /\ Len(aligned) = 1
    /\ aligned[1].start = chunks[2].timestamp[1]

Distance2(c, seg) == Abs((c.timestamp[1] + c.timestamp[2]) - (seg.start + seg.end))

\* the first interval among those whose midpoint is nearest to the chunk's
Nearest(c) ==
    smoothed[FirstIndex({i \in DOMAIN smoothed :
                \A j \in DOMAIN smoothed :
                    Distance2(c, smoothed[i]) <= Distance2(c, smoothed[j])})]

\* C10: a chunk that overlaps no interval gets the speaker of the interval
\* whose midpoint is nearest to its own, the first of them on equal distance
\* (Scenario 4 gives B), and "SPEAKER_00" when there is no interval.
C10_NearestByMidpoint ==
    pc = "aligned" =>
        /\ Len(aligned) = Len(PositiveChunks)
        /\ \A k \in DOMAIN aligned :
              Best(PositiveChunks[k]) = {}
                  => aligned[k].speaker =
                        IF smoothed = <<>> THEN "SPEAKER_00"
                        ELSE Nearest(PositiveChunks[k]).speaker
        /\ (chunks = Scenario4Chunks /\ smoothed = Scenario4Tracks)
              => aligned[1].speaker = "B"

\* a chunk without overlap has been aligned that has two nearest intervals
\* of different speakers
C10_Witness ==
    /\ pc = "aligned"
    /\ \E k \in DOMAIN aligned :
          /\ Best(PositiveChunks[k]) = {}
          /\ \E i, j \in DOMAIN smoothed :
                /\ i < j
                /\ smoothed[i].speaker # smoothed[j].speaker
                /\ Distance2(PositiveChunks[k], smoothed[i])
                     = Distance2(PositiveChunks[k], smoothed[j])
                /\ Nearest(PositiveChunks[k]) = smoothed[i]

\* the sentinel has been assigned: no interval at all
C10_WitnessSentinel ==
    /\ pc = "aligned"
    /\ smoothed = <<>>
    /\ aligned # <<>>

----------------------------------------------------------------------------
(* Properties of the meeting lifecycle (SpecMeeting).                      *)

\* the committed transcript rows that task t added
RowsOf(t) == {r \in transcripts : r.run = t}

\* C14: when a background task fails (in the engine call or while it adds
\* rows), the meeting gets status "error" and no row of that run is stored;
\* and whenever a step commits status "completed", it stores in the same
\* commit all rows of the run that completed.
C14_FailureLeavesNoRows ==
    [][\A t \in DOMAIN tasks :
          LET m == tasks[t].meeting_id
          IN /\ (tasks[t].pc # "failed" /\ tasks'[t].pc = "failed")
                   => /\ meetings'[m].status = "error"
                      /\ {r \in transcripts' : r.run = t} = {}
             /\ (tasks[t].pc # "done" /\ tasks'[t].pc = "done"
                 /\ meetings'[m].status = "completed")
                   => {r \in transcripts' : r.run = t}
                         = {Transcript(m, n, t) : n \in 1..tasks[t].segments}]_vars

\* C15: a meeting in "processing" eventually is "completed", "error" or
\* "cancelled", when every queued background task runs to its end.
C15_ProcessingEnds ==
    \A m \in 1..MaxMeetings :
        (Len(meetings) >= m /\ meetings[m].status = "processing")
            ~> (Len(meetings) >= m
                /\ meetings[m].status \in {"completed", "error", "cancelled"})

\* the meetings of the user that are recording or paused
ActiveMeetings == {m \in DOMAIN meetings : meetings[m].status \in {"recording", "paused"}}

\* C25: at every moment, under every interleaving of start, stream-audio,
\* pause, resume, end and cancel requests, a user has at most one meeting
\* whose status is "recording" or "paused".
C25_OneActiveMeeting == Cardinality(ActiveMeetings) <= 1

\* the transcript rows stored for meeting m
RowsFor(m, rows) == {r \in rows : r.meeting_id = m}

\* C26: once cancel_meeting has set the status of a meeting to "cancelled", no
\* later step changes it: a background task that was started before the
\* cancellation sets no "completed" or "error" and stores no transcript row
\* for the cancelled meeting.
C26_CancelledIsFinal ==
    [][\A m \in DOMAIN meetings :
          meetings[m].status = "cancelled"
              => /\ meetings'[m].status = "cancelled"
                 /\ RowsFor(m, transcripts') = RowsFor(m, transcripts)]_vars

\* the background tasks that have started to process meeting m
Started(m) ==
    {t \in DOMAIN tasks :
        /\ tasks[t].meeting_id = m
        /\ tasks[t].kind \in {"process_meeting", "process_file"}
        /\ tasks[t].pc # "queued"}

\* C27: for every meeting at most one processing task is ever started,
\* whatever end, cancel and upload requests arrive, and the segment_numbers
\* of the transcript rows stored for one meeting are pairwise distinct.
C27_OneRunPerMeeting ==
    \A m \in DOMAIN meetings :
        /\ Cardinality(Started(m)) <= 1
        /\ \A r1, r2 \in RowsFor(m, transcripts) :
              r1 # r2 => r1.segment_number # r2.segment_number

====
